---- MODULE Spec2Model ----
(***************************************************************************)
(* Model of package ui of swibrow/how: the response parser, the confirm    *)
(* prompt, the command executor with its not-found hint, and the shell     *)
(* history writer.  Strings are sequences of one-character strings, so     *)
(* that trimming, splitting, prefix tests and the regular expressions are  *)
(* computed character by character as the Go code computes them.           *)
(***************************************************************************)
EXTENDS Integers, Sequences, FiniteSets, TLC

VARIABLES
    pc,        \* position of the invocation in its control flow
    src,       \* how the inputs were assembled: [resp, errlines, hist, before, now, ok]
    response,  \* raw model text handed to ParseResponse
    result,    \* Result{Command, Explanation}
    stdin,     \* what the confirm prompt read: [line |-> chars] or [eof |-> chars]
    child,     \* outcome of the spawned sh -c: [kind, code, stderr]
    err,       \* error value returned to the caller
    hint,      \* lines the executor itself wrote to the error stream
    events,    \* order in which the steps of the invocation happened
    env,       \* [SHELL, HISTFILE]
    files      \* history files on disk: path -> sequence of lines

vars == <<pc, src, response, result, stdin, child, err, hint, events, env, files>>

---------------------------------------------------------------------------
(* Bounds of the model.                                                    *)

\* lines of a model response
MaxLines == 3
\* lines the child writes to its standard error
MaxStderrLines == 2
\* lines already in a history file
MaxHistLines == 2

---------------------------------------------------------------------------
(* package strings                                                         *)

\* unicode.IsSpace restricted to the ASCII white space
IsSpace(c) == c \in {" ", "\t", "\n", "\r", "\f"}

UpperLetters == <<"A","B","C","D","E","F","G","H","I","J","K","L","M",
                  "N","O","P","Q","R","S","T","U","V","W","X","Y","Z">>
LowerLetters == <<"a","b","c","d","e","f","g","h","i","j","k","l","m",
                  "n","o","p","q","r","s","t","u","v","w","x","y","z">>

ToLowerChar(c) ==
    IF \E i \in 1..26 : UpperLetters[i] = c
    THEN LowerLetters[CHOOSE i \in 1..26 : UpperLetters[i] = c]
    ELSE c

\* strings.ToLower
ToLower(s) == [i \in 1..Len(s) |-> ToLowerChar(s[i])]

RECURSIVE TrimLeftSpace(_)
TrimLeftSpace(s) ==
    IF s # <<>> /\ IsSpace(Head(s)) THEN TrimLeftSpace(Tail(s)) ELSE s

RECURSIVE TrimRightSpace(_)
TrimRightSpace(s) ==
    IF s # <<>> /\ IsSpace(s[Len(s)])
    THEN TrimRightSpace(SubSeq(s, 1, Len(s) - 1))
    ELSE s

\* strings.TrimSpace
TrimSpace(s) == TrimRightSpace(TrimLeftSpace(s))

\* strings.HasPrefix
HasPrefix(s, prefix) ==
    /\ Len(s) >= Len(prefix)
    /\ SubSeq(s, 1, Len(prefix)) = prefix

\* strings.TrimPrefix
TrimPrefix(s, prefix) ==
    IF HasPrefix(s, prefix) THEN SubSeq(s, Len(prefix) + 1, Len(s)) ELSE s

\* strings.Split(s, sep) for a one-character sep: always at least one piece
RECURSIVE SplitFrom(_, _, _, _)
SplitFrom(s, sep, i, cur) ==
    IF i > Len(s) THEN <<cur>>
    ELSE IF s[i] = sep THEN <<cur>> \o SplitFrom(s, sep, i + 1, <<>>)
    ELSE SplitFrom(s, sep, i + 1, Append(cur, s[i]))

Split(s, sep) == SplitFrom(s, sep, 1, <<>>)

\* strings.Fields: the maximal runs of non-space characters
RECURSIVE FieldsFrom(_, _, _)
FieldsFrom(s, i, cur) ==
    IF i > Len(s) THEN (IF cur = <<>> THEN <<>> ELSE <<cur>>)
    ELSE IF IsSpace(s[i])
         THEN (IF cur = <<>> THEN <<>> ELSE <<cur>>) \o FieldsFrom(s, i + 1, <<>>)
         ELSE FieldsFrom(s, i + 1, Append(cur, s[i]))

Fields(s) == FieldsFrom(s, 1, <<>>)

RECURSIVE Concat(_)
Concat(ss) == IF ss = <<>> THEN <<>> ELSE Head(ss) \o Concat(Tail(ss))

RECURSIVE Join(_, _)
Join(ss, sep) ==
    IF ss = <<>> THEN <<>>
    ELSE IF Len(ss) = 1 THEN Head(ss)
    ELSE Head(ss) \o sep \o Join(Tail(ss), sep)

---------------------------------------------------------------------------
(* ParseResponse                                                           *)

CommandPrefix == <<"C","O","M","M","A","N","D",":">>
ExplanationPrefix == <<"E","X","P","L","A","N","A","T","I","O","N",":">>

EmptyResult == [Command |-> <<>>, Explanation |-> <<>>]

\* ParseLine where the first line of a kind wins
ParseLineFirstWins(res, rawLine) ==
    LET line == TrimSpace(rawLine) IN
    IF HasPrefix(line, CommandPrefix)
    THEN (IF res.Command = <<>>
          THEN [res EXCEPT !.Command = TrimSpace(TrimPrefix(line, CommandPrefix))]
          ELSE res)
    ELSE IF HasPrefix(line, ExplanationPrefix)
    THEN (IF res.Explanation = <<>>
          THEN [res EXCEPT !.Explanation = TrimSpace(TrimPrefix(line, ExplanationPrefix))]
          ELSE res)
    ELSE res

\* ParseLine without the trim of the text after the prefix
ParseLineNoInnerTrim(res, rawLine) ==
    LET line == TrimSpace(rawLine) IN
    IF HasPrefix(line, CommandPrefix)
    THEN [res EXCEPT !.Command = TrimPrefix(line, CommandPrefix)]
    ELSE IF HasPrefix(line, ExplanationPrefix)
    THEN [res EXCEPT !.Explanation = TrimPrefix(line, ExplanationPrefix)]
    ELSE res

\* the body of the loop over the lines
ParseLine(res, rawLine) ==
    LET line == TrimSpace(rawLine) IN
    IF HasPrefix(line, CommandPrefix)
    THEN [res EXCEPT !.Command = TrimSpace(TrimPrefix(line, CommandPrefix))]
    ELSE IF HasPrefix(line, ExplanationPrefix)
    THEN [res EXCEPT !.Explanation = TrimSpace(TrimPrefix(line, ExplanationPrefix))]
    ELSE res

RECURSIVE ParseLines(_, _)
ParseLines(res, lines) ==
    IF lines = <<>> THEN res
    ELSE ParseLines(ParseLine(res, Head(lines)), Tail(lines))

ParseResponse(resp) == ParseLines(EmptyResult, Split(resp, "\n"))

---------------------------------------------------------------------------
(* package regexp: a backtracking matcher with Go's leftmost-first         *)
(* preference order.  RxMatch returns every way a node can match at        *)
(* position i, most preferred first, each with the end position and the    *)
(* span of capture group 1.                                                *)

RxLit(c) == [t |-> "lit", c |-> c]
RxCls(k) == [t |-> "cls", k |-> k]
RxCat(ns) == [t |-> "cat", ns |-> ns]
RxAlt(a, b) == [t |-> "alt", a |-> a, b |-> b]
RxStar(n) == [t |-> "star", n |-> n]
RxCap(n) == [t |-> "cap", n |-> n]
RxEmpty == RxCat(<<>>)
RxPlus(n) == RxCat(<<n, RxStar(n)>>)
RxOpt(n) == RxAlt(n, RxEmpty)
RxStr(chars) == RxCat([i \in 1..Len(chars) |-> RxLit(chars[i])])

IsDigit(c) == c \in {"0","1","2","3","4","5","6","7","8","9"}

InClass(k, c) ==
    CASE k = "s" -> IsSpace(c)
      [] k = "S" -> ~IsSpace(c)
      [] k = "d" -> IsDigit(c)

RECURSIVE RxMatch(_, _, _, _), RxThen(_, _, _), RxStarMore(_, _, _, _)
RxMatch(n, s, i, cap) ==
    CASE n.t = "lit" ->
           IF i <= Len(s) /\ s[i] = n.c
           THEN <<[pos |-> i + 1, cap |-> cap]>> ELSE <<>>
      [] n.t = "cls" ->
           IF i <= Len(s) /\ InClass(n.k, s[i])
           THEN <<[pos |-> i + 1, cap |-> cap]>> ELSE <<>>
      [] n.t = "cat" ->
           IF n.ns = <<>> THEN <<[pos |-> i, cap |-> cap]>>
           ELSE RxThen(RxMatch(Head(n.ns), s, i, cap), RxCat(Tail(n.ns)), s)
      [] n.t = "alt" -> RxMatch(n.a, s, i, cap) \o RxMatch(n.b, s, i, cap)
      [] n.t = "star" ->
           RxStarMore(RxMatch(n.n, s, i, cap), n, s, i) \o <<[pos |-> i, cap |-> cap]>>
      [] n.t = "cap" ->
           LET rs == RxMatch(n.n, s, i, cap) IN
           [k \in 1..Len(rs) |-> [pos |-> rs[k].pos, cap |-> <<i, rs[k].pos - 1>>]]

\* every way of matching `rest` after each of the partial matches rs, in order
RxThen(rs, rest, s) ==
    IF rs = <<>> THEN <<>>
    ELSE RxMatch(rest, s, Head(rs).pos, Head(rs).cap) \o RxThen(Tail(rs), rest, s)

\* greedy repetition: one more iteration (that consumed input) is preferred
RxStarMore(rs, star, s, i) ==
    IF rs = <<>> THEN <<>>
    ELSE (IF Head(rs).pos > i
          THEN RxMatch(star, s, Head(rs).pos, Head(rs).cap) ELSE <<>>)
         \o RxStarMore(Tail(rs), star, s, i)

\* (*Regexp).FindStringSubmatch: <<whole match, group 1>> of the leftmost
\* match, or the empty sequence (nil) when there is none
RECURSIVE FindFrom(_, _, _)
FindFrom(re, s, i) ==
    IF i > Len(s) + 1 THEN <<>>
    ELSE LET rs == RxMatch(re, s, i, <<>>) IN
         IF rs # <<>>
         THEN <<SubSeq(s, i, rs[1].pos - 1),
                IF rs[1].cap = <<>> THEN <<>> ELSE SubSeq(s, rs[1].cap[1], rs[1].cap[2])>>
         ELSE FindFrom(re, s, i + 1)

FindStringSubmatch(re, s) == FindFrom(re, s, 1)

---------------------------------------------------------------------------
(* parseNotFoundCommand and installSuggestion                              *)

\* (?:sh|bash):\s*(?:line \d+:\s*)?(\S+):\s*(?:command )?not found
notFoundRe ==
    RxCat(<< RxAlt(RxStr(<<"s","h">>), RxStr(<<"b","a","s","h">>)),
             RxLit(":"), RxStar(RxCls("s")),
             RxOpt(RxCat(<< RxStr(<<"l","i","n","e"," ">>), RxPlus(RxCls("d")),
                            RxLit(":"), RxStar(RxCls("s")) >>)),
             RxCap(RxPlus(RxCls("S"))),
             RxLit(":"), RxStar(RxCls("s")),
             RxOpt(RxStr(<<"c","o","m","m","a","n","d"," ">>)),
             RxStr(<<"n","o","t"," ","f","o","u","n","d">>) >>)

\* zsh:\s*command not found:\s*(\S+)
notFoundZshRe ==
    RxCat(<< RxStr(<<"z","s","h">>), RxLit(":"), RxStar(RxCls("s")),
             RxStr(<<"c","o","m","m","a","n","d"," ","n","o","t"," ","f","o","u","n","d",":">>),
             RxStar(RxCls("s")),
             RxCap(RxPlus(RxCls("S"))) >>)

\* parseNotFoundCommand with the zsh pattern tried first
parseNotFoundCommandZshFirst(stderr, command) ==
    LET m == FindStringSubmatch(notFoundRe, stderr)
        z == FindStringSubmatch(notFoundZshRe, stderr)
        fields == Fields(command) IN
    IF Len(z) > 1 THEN z[2]
    ELSE IF Len(m) > 1 THEN m[2]
    ELSE IF Len(fields) > 0 THEN fields[1]
    ELSE <<>>

parseNotFoundCommand(stderr, command) ==
    LET m == FindStringSubmatch(notFoundRe, stderr)
        z == FindStringSubmatch(notFoundZshRe, stderr)
        fields == Fields(command) IN
    IF Len(m) > 1 THEN m[2]
    ELSE IF Len(z) > 1 THEN z[2]
    ELSE IF Len(fields) > 0 THEN fields[1]
    ELSE <<>>

BrewInstall == <<"I","n","s","t","a","l","l"," ","w","i","t","h",":"," ","b","r","e","w"," ","i","n","s","t","a","l","l"," ">>
AptInstall == <<"I","n","s","t","a","l","l"," ","w","i","t","h",":"," ","s","u","d","o"," ","a","p","t"," ","i","n","s","t","a","l","l"," ">>
DnfInstall == <<"I","n","s","t","a","l","l"," ","w","i","t","h",":"," ","s","u","d","o"," ","d","n","f"," ","i","n","s","t","a","l","l"," ">>
PacmanInstall == <<"I","n","s","t","a","l","l"," ","w","i","t","h",":"," ","s","u","d","o"," ","p","a","c","m","a","n"," ","-","S"," ">>
GenericHead == <<"I","n","s","t","a","l","l"," ">>
GenericTail == <<" ","u","s","i","n","g"," ","y","o","u","r"," ","s","y","s","t","e","m"," ","p","a","c","k","a","g","e"," ","m","a","n","a","g","e","r">>

\* installSuggestion with dnf probed before apt
installSuggestionDnfFirst(goos, onPath, cmdName) ==
    CASE goos = "darwin" -> BrewInstall \o cmdName
      [] goos = "linux" ->
           IF "dnf" \in onPath THEN DnfInstall \o cmdName
           ELSE IF "apt" \in onPath THEN AptInstall \o cmdName
           ELSE IF "pacman" \in onPath THEN PacmanInstall \o cmdName
           ELSE GenericHead \o cmdName \o GenericTail
      [] OTHER -> GenericHead \o cmdName \o GenericTail

\* goos is runtime.GOOS; onPath is the set of names exec.LookPath finds
installSuggestion(goos, onPath, cmdName) ==
    CASE goos = "darwin" -> BrewInstall \o cmdName
      [] goos = "linux" ->
           IF "apt" \in onPath THEN AptInstall \o cmdName
           ELSE IF "dnf" \in onPath THEN DnfInstall \o cmdName
           ELSE IF "pacman" \in onPath THEN PacmanInstall \o cmdName
           ELSE GenericHead \o cmdName \o GenericTail
      [] OTHER -> GenericHead \o cmdName \o GenericTail

---------------------------------------------------------------------------
(* os/exec and RunCommand                                                  *)

Nil == [type |-> "nil", code |-> 0]
NoHint == [cmdName |-> <<>>, suggestion |-> <<>>]
NoChild == [kind |-> "none", code |-> 0, stderr |-> <<>>]

\* (*exec.Cmd).Run: nil on exit status 0, *exec.ExitError on any other exit
\* (code -1: killed by a signal), another error when sh could not be started
cmdRun(oc) ==
    IF oc.kind = "spawn" THEN [type |-> "exec.Error", code |-> 0]
    ELSE IF oc.code = 0 THEN Nil
    ELSE [type |-> "ExitError", code |-> oc.code]

\* RunCommand where the hint swallows the error
RunCommandHintClearsError(command, oc, goos, onPath) ==
    LET e == cmdRun(oc)
        cmdName == parseNotFoundCommand(oc.stderr, command) IN
    IF e.type = "ExitError" /\ e.code = 127 /\ cmdName # <<>>
    THEN [err |-> Nil,
          hint |-> [cmdName |-> cmdName,
                    suggestion |-> installSuggestion(goos, onPath, cmdName)]]
    ELSE [err |-> e, hint |-> NoHint]

\* the error RunCommand returns and the hint it writes to os.Stderr, for a
\* child that ended as oc
RunCommand(command, oc, goos, onPath) ==
    LET e == cmdRun(oc)
        cmdName == parseNotFoundCommand(oc.stderr, command) IN
    IF e # Nil /\ e.type = "ExitError" /\ e.code = 127 /\ cmdName # <<>>
    THEN [err |-> e,
          hint |-> [cmdName |-> cmdName,
                    suggestion |-> installSuggestion(goos, onPath, cmdName)]]
    ELSE [err |-> e, hint |-> NoHint]

---------------------------------------------------------------------------
(* ConfirmAndRun                                                           *)

\* bufio.Reader.ReadString: a line up to and including the newline, or what
\* was left together with io.EOF
ReadString(in) ==
    IF in.eof THEN [s |-> in.text, err |-> [type |-> "EOF", code |-> 0]]
    ELSE [s |-> in.text \o <<"\n">>, err |-> Nil]

\* Confirmed with the empty line taken as yes
ConfirmedDefaultYes(input) ==
    LET in == TrimSpace(ToLower(input)) IN
    in \in {<<>>, <<"y">>, <<"y","e","s">>}

\* whether the line read makes ConfirmAndRun go on to RunCommand
Confirmed(input) ==
    LET in == TrimSpace(ToLower(input)) IN
    ~(in # <<"y">> /\ in # <<"y","e","s">>)

---------------------------------------------------------------------------
(* Shell history writer: shellHistoryFile, isZshExtendedHistory and        *)
(* addToShellHistory, as the design document and the tests describe them.  *)

ZshHistoryName == <<"/",".","z","s","h","_","h","i","s","t","o","r","y">>
BashHistoryName == <<"/",".","b","a","s","h","_","h","i","s","t","o","r","y">>

\* filepath.Base of a shell path
Base(path) == LET parts == Split(path, "/") IN parts[Len(parts)]

\* shellHistoryFile where the shell decides before the override
shellHistoryFileShellFirst(shell, histfile, home) ==
    IF Base(shell) = <<"z","s","h">> THEN home \o ZshHistoryName
    ELSE IF Base(shell) = <<"b","a","s","h">> THEN home \o BashHistoryName
    ELSE histfile

\* histfile is the HISTFILE override (empty: absent), home the home directory
shellHistoryFile(shell, histfile, home) ==
    IF histfile # <<>> THEN histfile
    ELSE IF Base(shell) = <<"z","s","h">> THEN home \o ZshHistoryName
    ELSE IF Base(shell) = <<"b","a","s","h">> THEN home \o BashHistoryName
    ELSE <<>>

\* ^: \d+:\d+;
zshExtendedRe ==
    RxCat(<< RxLit(":"), RxLit(" "), RxPlus(RxCls("d")), RxLit(":"),
             RxPlus(RxCls("d")), RxLit(";") >>)

\* lines: the content of the file, <<>> for an empty or missing file
isZshExtendedHistory(lines) ==
    \E i \in 1..Len(lines) : RxMatch(zshExtendedRe, lines[i], 1, <<>>) # <<>>

Digits == <<"0","1","2","3","4","5","6","7","8","9">>

\* strconv.Itoa / %d of a non-negative number
RECURSIVE Itoa(_)
Itoa(n) == IF n < 10 THEN <<Digits[n + 1]>> ELSE Itoa(n \div 10) \o <<Digits[(n % 10) + 1]>>

\* historyEntry that never writes the extended form
historyEntryAlwaysPlain(lines, now, command) == command

\* the line addToShellHistory appends to a file holding `lines`
historyEntry(lines, now, command) ==
    IF isZshExtendedHistory(lines)
    THEN <<":"," ">> \o Itoa(now) \o <<":","0",";">> \o command
    ELSE command

\* the files after addToShellHistory(command); ok: the file could be opened
\* for appending and written
addToShellHistory(fs, e, now, ok, command) ==
    LET path == shellHistoryFile(e.SHELL, e.HISTFILE, e.HOME) IN
    IF path = <<>> \/ ~ok THEN fs
    ELSE LET old == IF path \in DOMAIN fs THEN fs[path] ELSE <<>> IN
         [p \in DOMAIN fs \cup {path} |->
             IF p = path THEN Append(old, historyEntry(old, now, command))
             ELSE fs[p]]

---------------------------------------------------------------------------
(* Inputs.  Texts are assembled from parts, and the parts are kept in src, *)
(* so that what an operation returns can be compared with what went in.    *)

\* stands for the grave accent (U+0060), the one character of the inputs
\* that cannot be written inside a string of this module
BQ == "BQ"

Pads ==
    << [lead |-> <<>>, gap |-> <<>>, trail |-> <<>>],
       [lead |-> <<" ","\t">>, gap |-> <<" "," ">>, trail |-> <<" ","\r">>] >>

Wrap(w, text) ==
    CASE w = "none" -> text
      [] w = "single" -> <<BQ>> \o text \o <<BQ>>
      [] w = "triple" -> <<BQ,BQ,BQ>> \o text \o <<BQ,BQ,BQ>>
      [] w = "leading" -> <<BQ>> \o text

LsLa == <<"l","s"," ","-","l","a">>
GhApi == <<"g","h"," ","a","p","i">>

CommandLines ==
    { [kind |-> "COMMAND", pad |-> p, wrap |-> c[1], text |-> c[2]] :
        p \in 1..2,
        c \in { <<"none", LsLa>>, <<"none", GhApi>>, <<"single", LsLa>>,
                <<"triple", LsLa>>, <<"leading", GhApi>> } }

ExplanationLines ==
    { [kind |-> "EXPLANATION", pad |-> p, wrap |-> "none", text |-> t] :
        p \in 1..2,
        t \in { <<"L","i","s","t"," ","f","i","l","e","s">>, <<"G","e","t">> } }

\* lines that match neither prefix: blank, lower case, prefix not at the start
OtherLines ==
    { [kind |-> "other", pad |-> 1, wrap |-> "none", text |-> t] :
        t \in { <<>>,
                <<"c","o","m","m","a","n","d",":"," ","l","s">>,
                <<">"," ","C","O","M","M","A","N","D",":"," ","l","s">> } }

ResponseLines == CommandLines \cup ExplanationLines \cup OtherLines

RenderLine(l) ==
    LET pad == Pads[l.pad] IN
    CASE l.kind = "COMMAND" ->
           pad.lead \o CommandPrefix \o pad.gap \o Wrap(l.wrap, l.text) \o pad.trail
      [] l.kind = "EXPLANATION" ->
           pad.lead \o ExplanationPrefix \o pad.gap \o Wrap(l.wrap, l.text) \o pad.trail
      [] OTHER -> pad.lead \o l.text \o pad.trail

RenderResponse(ls) == Join([i \in 1..Len(ls) |-> RenderLine(ls[i])], <<"\n">>)

SeqsUpTo(S, n) == UNION { [1..k -> S] : k \in 0..n }

\* what the child wrote to its standard error, line by line
StderrLines ==
    { [form |-> "sh",    text |-> <<"s","h",":"," ","r","g",":"," ","c","o","m","m","a","n","d"," ","n","o","t"," ","f","o","u","n","d">>, token |-> <<"r","g">>],
      [form |-> "sh",    text |-> <<"b","a","s","h",":"," ","l","i","n","e"," ","1","2",":"," ","h","t","o","p",":"," ","c","o","m","m","a","n","d"," ","n","o","t"," ","f","o","u","n","d">>, token |-> <<"h","t","o","p">>],
      [form |-> "sh",    text |-> <<"b","a","s","h",":","a",":","b",":","\t","c","o","m","m","a","n","d"," ","n","o","t"," ","f","o","u","n","d">>, token |-> <<"a",":","b">>],
      [form |-> "ash",   text |-> <<"s","h",":"," ","j","q",":"," ","n","o","t"," ","f","o","u","n","d">>, token |-> <<"j","q">>],
      [form |-> "zsh",   text |-> <<"z","s","h",":"," ","c","o","m","m","a","n","d"," ","n","o","t"," ","f","o","u","n","d",":"," ","f","d">>, token |-> <<"f","d">>],
      [form |-> "dash",  text |-> <<"s","h",":"," ","1",":"," ","n","x",":"," ","n","o","t"," ","f","o","u","n","d">>, token |-> <<"n","x">>],
      [form |-> "other", text |-> <<"s","o","m","e"," ","u","n","e","x","p","e","c","t","e","d"," ","e","r","r","o","r">>, token |-> <<>>],
      [form |-> "other", text |-> <<"f","i","s","h",":"," ","U","n","k","n","o","w","n"," ","c","o","m","m","a","n","d",":"," ","r","g">>, token |-> <<>>] }

\* every line of the child's standard error ends with a newline
RenderStderr(ls) == Concat([i \in 1..Len(ls) |-> ls[i].text \o <<"\n">>])

RunCommands ==
    { <<"r","g"," ","f","o","o">>,
      <<" ","l","s"," ","|"," ","a",":","b">>,
      <<" ","\t">> }

ExitCodes == {0, 1, 127, -1}

Platforms ==
    { [GOOS |-> "linux", PATH |-> P] : P \in SUBSET {"apt", "dnf", "pacman"} }
    \cup { [GOOS |-> g, PATH |-> P] :
             g \in {"darwin", "windows"}, P \in {{}, {"apt", "dnf", "pacman"}} }

BinZsh == <<"/","b","i","n","/","z","s","h">>
UsrBinBash == <<"/","u","s","r","/","b","i","n","/","b","a","s","h">>
BinFish == <<"/","b","i","n","/","f","i","s","h">>
Home == <<"/","h","o","m","e","/","u">>
TmpHist == <<"/","t","m","p","/","h">>

HistoryPaths == {Home \o ZshHistoryName, Home \o BashHistoryName, TmpHist}

\* lines of a history file: extended, plain, and plain lines close to extended
HistoryLines ==
    { [ext |-> TRUE,  text |-> <<":"," ","1","7","0","0","0","0",":","0",";","l","s">>],
      [ext |-> TRUE,  text |-> <<":"," ","9",":","1","5",";">>],
      [ext |-> FALSE, text |-> <<"l","s">>],
      [ext |-> FALSE, text |-> <<"e","c","h","o"," ",":"," ","1",":","0",";">>],
      [ext |-> FALSE, text |-> <<":"," ","1","7",":",";","p","w","d">>] }

HistoryCommands == { <<"g","i","t"," ","s","t","a","t","u","s">>, <<"l","s">> }

Epochs == {7, 1700000001}

NoSrc == [resp |-> <<>>, errlines |-> <<>>, hist |-> <<>>,
          before |-> <<>>, now |-> 0, ok |-> FALSE]

NoEnv == [SHELL |-> <<>>, HISTFILE |-> <<>>, HOME |-> Home, GOOS |-> "linux", PATH |-> {}]

NoStdin == [text |-> <<>>, eof |-> FALSE]

Ev(op, out) == [op |-> op, out |-> out]

Ops(evs) == [i \in 1..Len(evs) |-> evs[i].op]

---------------------------------------------------------------------------
(* The steps of an invocation                                              *)

\* result := ParseResponse(response)
DoParseResponse ==
    /\ pc = "start"
    /\ result' = ParseResponse(response)
    /\ events' = Append(events, Ev("parse", <<>>))
    /\ pc' = "parsed"
    /\ UNCHANGED <<src, response, stdin, child, err, hint, env, files>>

\* a Result without a command is nothing to run: the caller reports it and stops
DoReject ==
    /\ pc = "parsed"
    /\ result.Command = <<>>
    /\ events' = Append(events, Ev("error", <<>>))
    /\ pc' = "done"
    /\ UNCHANGED <<src, response, result, stdin, child, err, hint, env, files>>

\* Display(result): the command, and the explanation when there is one
DoDisplay ==
    /\ pc = "parsed"
    /\ result.Command # <<>>
    /\ events' = Append(events,
                   Ev("display", IF result.Explanation # <<>>
                                 THEN <<result.Command, result.Explanation>>
                                 ELSE <<result.Command>>))
    /\ pc' = "displayed"
    /\ UNCHANGED <<src, response, result, stdin, child, err, hint, env, files>>

\* RunCommand(command) for a child that ends as oc
RunCommandStep(command, oc) ==
    LET r == RunCommand(command, oc, env.GOOS, env.PATH) IN
    /\ child' = oc
    /\ err' = r.err
    /\ hint' = r.hint
    /\ events' = Append(events, Ev("exec", <<command>>))

\* ConfirmAndRun where the command runs before the prompt is answered
ConfirmAndRunExecFirst(in, oc) ==
    LET r == RunCommand(result.Command, oc, env.GOOS, env.PATH) IN
    /\ stdin' = in
    /\ child' = oc
    /\ err' = r.err
    /\ hint' = r.hint
    /\ events' = events \o <<Ev("exec", <<result.Command>>), Ev("prompt", <<>>)>>

\* ConfirmAndRun(result.Command) reading the input in from standard input
ConfirmAndRun(in, oc) ==
    LET read == ReadString(in)
        prompted == Append(events, Ev("prompt", <<>>)) IN
    /\ stdin' = in
    /\ IF read.err # Nil
       THEN /\ err' = [type |-> "reading input", code |-> 0]
            /\ events' = prompted
            /\ UNCHANGED <<child, hint>>
       ELSE IF ~Confirmed(read.s)
       THEN /\ err' = Nil
            /\ events' = prompted
            /\ UNCHANGED <<child, hint>>
       ELSE LET r == RunCommand(result.Command, oc, env.GOOS, env.PATH) IN
            /\ child' = oc
            /\ err' = r.err
            /\ hint' = r.hint
            /\ events' = Append(prompted, Ev("exec", <<result.Command>>))

StdinInputs ==
    { [text |-> t, eof |-> FALSE] :
        t \in { <<"y">>, <<"Y">>, <<"y","e","s">>, <<" ","Y","e","S"," ","\r">>,
                <<>>, <<"n">>, <<"n","o">>, <<"y","y">>, <<"y"," ","e","s">>, <<" ">> } }
    \cup { [text |-> t, eof |-> TRUE] : t \in { <<>>, <<"y">> } }

PipelineOutcomes ==
    { [kind |-> "exit", code |-> 0, stderr |-> <<>>],
      [kind |-> "exit", code |-> 1, stderr |-> RenderStderr(<<CHOOSE l \in StderrLines : l.form = "other">>)],
      [kind |-> "exit", code |-> 127, stderr |-> RenderStderr(<<CHOOSE l \in StderrLines : l.form = "dash">>)],
      [kind |-> "exit", code |-> 127, stderr |-> RenderStderr(<<CHOOSE l \in StderrLines : l.form = "zsh">>)],
      [kind |-> "spawn", code |-> 0, stderr |-> <<>>] }

DoConfirmAndRun ==
    /\ pc = "displayed"
    /\ \E in \in StdinInputs, oc \in PipelineOutcomes : ConfirmAndRun(in, oc)
    /\ pc' = "returned"
    /\ UNCHANGED <<src, response, result, env, files>>

\* RunCommand(result.Command), entered directly
DoRunCommand ==
    /\ pc = "run"
    /\ \E ls \in SeqsUpTo(StderrLines, MaxStderrLines), code \in ExitCodes,
          kind \in {"exit", "spawn"} :
         /\ kind = "spawn" => (code = 0 /\ ls = <<>>)
         /\ code # 127 => Len(ls) <= 1 /\ \A i \in 1..Len(ls) : ls[i].form = "other"
         /\ RunCommandStep(result.Command,
                [kind |-> kind, code |-> code, stderr |-> RenderStderr(ls)])
         /\ src' = [src EXCEPT !.errlines = ls]
    /\ pc' = "returned"
    /\ UNCHANGED <<response, result, stdin, env, files>>

\* the command that ran without error is recorded in the shell history
DoAddToShellHistory ==
    /\ pc = "returned"
    /\ err = Nil
    /\ \E i \in 1..Len(events) : events[i].op = "exec"
    /\ \E now \in Epochs, ok \in BOOLEAN :
         /\ files' = addToShellHistory(files, env, now, ok, result.Command)
         /\ src' = [src EXCEPT !.before = files, !.now = now, !.ok = ok]
    /\ events' = Append(events, Ev("record", <<result.Command>>))
    /\ pc' = "done"
    /\ UNCHANGED <<response, result, stdin, child, err, hint, env>>

---------------------------------------------------------------------------
(* Specifications                                                          *)

PipelineResponses ==
    { <<[kind |-> "COMMAND", pad |-> 1, wrap |-> "none", text |-> LsLa],
        [kind |-> "EXPLANATION", pad |-> 1, wrap |-> "none",
         text |-> <<"G","e","t">>]>>,
      <<[kind |-> "COMMAND", pad |-> 2, wrap |-> "none", text |-> GhApi]>>,
      <<[kind |-> "other", pad |-> 1, wrap |-> "none", text |-> <<>>]>> }

PipelineEnvs ==
    { [SHELL |-> BinZsh, HISTFILE |-> <<>>, HOME |-> Home, GOOS |-> "darwin", PATH |-> {}],
      [SHELL |-> UsrBinBash, HISTFILE |-> TmpHist, HOME |-> Home, GOOS |-> "linux", PATH |-> {"dnf", "pacman"}],
      [SHELL |-> BinFish, HISTFILE |-> <<>>, HOME |-> Home, GOOS |-> "linux", PATH |-> {}] }

HistoryContents == SeqsUpTo(HistoryLines, MaxHistLines)

Texts(ls) == [i \in 1..Len(ls) |-> ls[i].text]

\* every history path holds the lines ls
FilesHolding(ls) == [p \in HistoryPaths |-> Texts(ls)]

\* the whole invocation: parse, display, confirm and run, record
Init ==
    /\ pc = "start"
    /\ \E ls \in PipelineResponses :
         /\ src = [NoSrc EXCEPT !.resp = ls]
         /\ response = RenderResponse(ls)
    /\ result = EmptyResult
    /\ stdin = NoStdin
    /\ child = NoChild
    /\ err = Nil
    /\ hint = NoHint
    /\ events = <<>>
    /\ env \in PipelineEnvs
    /\ files \in { <<>>, FilesHolding(<<CHOOSE l \in HistoryLines : l.ext>>) }

Next == DoParseResponse \/ DoReject \/ DoDisplay \/ DoConfirmAndRun \/ DoAddToShellHistory

Spec == Init /\ [][Next]_vars

\* the response parser on assembled responses
InitParse ==
    /\ pc = "start"
    /\ \E ls \in SeqsUpTo(ResponseLines, MaxLines) :
         /\ src = [NoSrc EXCEPT !.resp = ls]
         /\ response = RenderResponse(ls)
    /\ result = EmptyResult
    /\ stdin = NoStdin
    /\ child = NoChild
    /\ err = Nil
    /\ hint = NoHint
    /\ events = <<>>
    /\ env = NoEnv
    /\ files = <<>>

NextParse == DoParseResponse

SpecParse == InitParse /\ [][NextParse]_vars

\* the command executor on every platform and child outcome
InitRun ==
    /\ pc = "run"
    /\ src = NoSrc
    /\ response = <<>>
    /\ \E c \in RunCommands : result = [Command |-> c, Explanation |-> <<>>]
    /\ stdin = NoStdin
    /\ child = NoChild
    /\ err = Nil
    /\ hint = NoHint
    /\ events = <<>>
    /\ \E pf \in Platforms : env = [NoEnv EXCEPT !.GOOS = pf.GOOS, !.PATH = pf.PATH]
    /\ files = <<>>

NextRun == DoRunCommand

SpecRun == InitRun /\ [][NextRun]_vars

\* the history writer after a command that ran without error
InitHistory ==
    /\ pc = "returned"
    /\ \E ls \in HistoryContents :
         /\ src = [NoSrc EXCEPT !.hist = ls]
         /\ files \in { <<>>, FilesHolding(ls) }
         /\ files = <<>> => ls = <<>>
    /\ response = <<>>
    /\ \E c \in HistoryCommands :
         /\ result = [Command |-> c, Explanation |-> <<>>]
         /\ events = <<Ev("exec", <<c>>)>>
    /\ stdin = NoStdin
    /\ child = [kind |-> "exit", code |-> 0, stderr |-> <<>>]
    /\ err = Nil
    /\ hint = NoHint
    /\ \E sh \in {BinZsh, UsrBinBash, BinFish, <<>>}, hf \in {<<>>, TmpHist} :
         env = [NoEnv EXCEPT !.SHELL = sh, !.HISTFILE = hf]

NextHistory == DoAddToShellHistory

SpecHistory == InitHistory /\ [][NextHistory]_vars

---------------------------------------------------------------------------
(* Properties                                                              *)

Has(op) == \E i \in 1..Len(events) : events[i].op = op

\* the inputs of StdinInputs that read y or yes once trimmed and lower-cased
YesTexts == { <<"y">>, <<"Y">>, <<"y","e","s">>, <<" ","Y","e","S"," ","\r">> }

\* C1: for every line ConfirmAndRun reads, the command is executed only if the
\* line is y or yes (trimmed, any case); on any other line, the empty one
\* included, nothing is executed and no error is returned.
ConfirmGatesExecution ==
    (Has("prompt") /\ ~stdin.eof) =>
        /\ Has("exec") => stdin.text \in YesTexts
        /\ stdin.text \notin YesTexts =>
              ~Has("exec") /\ err = Nil /\ child = NoChild /\ hint = NoHint

ConfirmedWithPaddingRuns ==
    /\ pc = "returned"
    /\ stdin = [text |-> <<" ","Y","e","S"," ","\r">>, eof |-> FALSE]
    /\ Has("exec")
    /\ child.kind = "exit" /\ child.code = 0

LinesOfKind(k) == { i \in 1..Len(src.resp) : src.resp[i].kind = k }

Last(S) == CHOOSE i \in S : \A j \in S : j <= i

Payload(l) == Wrap(l.wrap, l.text)

Bare(ls) == [i \in 1..Len(ls) |-> [ls[i] EXCEPT !.wrap = "none"]]

\* C2: a command wrapped in triple backticks, in single backticks or behind one
\* unmatched leading backtick parses to the same Command as the bare command.
BacktickFencesStripped ==
    pc = "parsed" =>
        result.Command = ParseResponse(RenderResponse(Bare(src.resp))).Command

\* C3: with one COMMAND: line and one EXPLANATION: line, whatever the white
\* space around the lines and the texts and whatever other lines there are,
\* Command and Explanation are exactly the trimmed texts after the prefixes;
\* with no matching line both fields are empty.
ParseRecoversTrimmedText ==
    pc = "parsed" =>
        /\ (Cardinality(LinesOfKind("COMMAND")) = 1
              /\ Cardinality(LinesOfKind("EXPLANATION")) = 1) =>
                /\ result.Command = Payload(src.resp[Last(LinesOfKind("COMMAND"))])
                /\ result.Explanation = Payload(src.resp[Last(LinesOfKind("EXPLANATION"))])
        /\ (LinesOfKind("COMMAND") = {} /\ LinesOfKind("EXPLANATION") = {}) =>
                result = EmptyResult

PaddedPairAmongOtherLinesParsed ==
    /\ pc = "parsed"
    /\ Len(src.resp) = 3
    /\ src.resp[1].kind = "other" /\ src.resp[1].text # <<>>
    /\ src.resp[2].kind = "EXPLANATION" /\ src.resp[2].pad = 2
    /\ src.resp[3].kind = "COMMAND" /\ src.resp[3].pad = 2
    /\ result.Command = LsLa

\* C9: with several COMMAND: lines or several EXPLANATION: lines each field
\* holds the value of its own last line, whatever lines of the other kind come
\* before, between or after.
LastOccurrenceWins ==
    pc = "parsed" =>
        /\ Cardinality(LinesOfKind("COMMAND")) >= 2 =>
              result.Command = Payload(src.resp[Last(LinesOfKind("COMMAND"))])
        /\ Cardinality(LinesOfKind("EXPLANATION")) >= 2 =>
              result.Explanation = Payload(src.resp[Last(LinesOfKind("EXPLANATION"))])
        /\ (LinesOfKind("COMMAND") # {} /\ LinesOfKind("EXPLANATION") # {}) =>
              /\ result.Command = Payload(src.resp[Last(LinesOfKind("COMMAND"))])
              /\ result.Explanation = Payload(src.resp[Last(LinesOfKind("EXPLANATION"))])

LaterCommandKeepsExplanation ==
    /\ pc = "parsed"
    /\ Len(src.resp) = 3
    /\ src.resp[1].kind = "COMMAND" /\ src.resp[1].text = LsLa
    /\ src.resp[2].kind = "EXPLANATION"
    /\ src.resp[3].kind = "COMMAND" /\ src.resp[3].text = GhApi /\ src.resp[3].wrap = "none"
    /\ result.Command = GhApi
    /\ result.Explanation # <<>>

\* C4: RunCommand returns exactly the error of running the child: nil on exit
\* status 0, the exit error on any other status, the start error when the shell
\* could not be started; the hint appears on status 127 only and leaves the
\* returned error as it is.
RunCommandReturnsChildError ==
    pc = "returned" =>
        /\ err = Nil <=> (child.kind = "exit" /\ child.code = 0)
        /\ (child.kind = "exit" /\ child.code # 0) =>
              err = [type |-> "ExitError", code |-> child.code]
        /\ child.kind = "spawn" => err.type = "exec.Error"
        /\ hint # NoHint => (child.kind = "exit" /\ child.code = 127)

HintLeavesExitErrorAlone ==
    /\ pc = "returned"
    /\ child.code = 127
    /\ hint # NoHint
    /\ err = [type |-> "ExitError", code |-> 127]


\* the first white-space delimited token of each command of RunCommands
FirstToken(c) ==
    CASE c = <<"r","g"," ","f","o","o">> -> <<"r","g">>
      [] c = <<" ","l","s"," ","|"," ","a",":","b">> -> <<"l","s">>
      [] OTHER -> <<>>

LinesOfForm(forms) == { i \in 1..Len(src.errlines) : src.errlines[i].form \in forms }

First(S) == CHOOSE i \in S : \A j \in S : i <= j

\* the missing command when the lines of the forms shForms are the ones the
\* sh/bash pattern matches
MissingCommand(shForms) ==
    IF LinesOfForm(shForms) # {} THEN src.errlines[First(LinesOfForm(shForms))].token
    ELSE IF LinesOfForm({"zsh"}) # {} THEN src.errlines[First(LinesOfForm({"zsh"}))].token
    ELSE FirstToken(result.Command)

NotFoundExit == pc = "returned" /\ child.kind = "exit" /\ child.code = 127

\* C5 as claimed: the sh/bash pattern is sh: or bash:, an optional line N:, a
\* token and ": command not found"; a standard error without such a line and
\* without the zsh line yields the first token of the command.
NotFoundTokenAsClaimed ==
    NotFoundExit => hint.cmdName = MissingCommand({"sh"})

\* C5 as amended: the word "command " of the sh/bash pattern is optional, so
\* "sh: jq: not found" yields jq as well; the sh/bash pattern is tried before
\* the zsh pattern, and the first token of the command is the fallback (no
\* hint when the command has no token).
NotFoundTokenByPattern ==
    NotFoundExit => hint.cmdName = MissingCommand({"sh", "ash"})

AshLineYieldsToken ==
    /\ NotFoundExit
    /\ Len(src.errlines) = 2
    /\ src.errlines[1].form = "zsh"
    /\ src.errlines[2].form = "ash"
    /\ hint.cmdName = <<"j","q">>
    /\ result.Command = <<"r","g"," ","f","o","o">>

Managers ==
    << [name |-> "apt", text |-> AptInstall],
       [name |-> "dnf", text |-> DnfInstall],
       [name |-> "pacman", text |-> PacmanInstall] >>

PresentManagers == { i \in 1..3 : Managers[i].name \in env.PATH }

Contains(s, sub) ==
    \E i \in 1..(Len(s) - Len(sub) + 1) : SubSeq(s, i, i + Len(sub) - 1) = sub

\* C10: the hint is the Homebrew install on macOS; on Linux the install of the
\* first of apt, dnf, pacman that is on the search path, or the generic message
\* when none is; the generic message elsewhere; it always names the command.
InstallSuggestionByPriority ==
    (pc = "returned" /\ hint # NoHint) =>
        /\ hint.suggestion =
             IF env.GOOS = "darwin" THEN BrewInstall \o hint.cmdName
             ELSE IF env.GOOS = "linux" /\ PresentManagers # {}
             THEN Managers[First(PresentManagers)].text \o hint.cmdName
             ELSE GenericHead \o hint.cmdName \o GenericTail
        /\ Contains(hint.suggestion, hint.cmdName)

DnfSuggestedWhenAptAbsent ==
    /\ pc = "returned"
    /\ env.GOOS = "linux" /\ env.PATH = {"dnf", "pacman"}
    /\ hint.cmdName = <<"j","q">>
    /\ hint.suggestion = DnfInstall \o <<"j","q">>

Rank(op) ==
    CASE op = "parse" -> 1
      [] op = "display" -> 2
      [] op = "error" -> 2
      [] op = "prompt" -> 3
      [] op = "exec" -> 4
      [] op = "record" -> 5

Changed == { p \in DOMAIN files : p \notin DOMAIN src.before \/ files[p] # src.before[p] }

Recorded == pc = "done" /\ Has("record") /\ src.ok

\* C7: with a history file override the file written is that path, whatever
\* the shell; without one it is ~/.zsh_history for zsh, ~/.bash_history for
\* bash, and for any other shell no file is written and no error is raised.
HistoryFileResolution ==
    Recorded =>
        /\ err = Nil
        /\ Changed =
             IF env.HISTFILE # <<>> THEN {env.HISTFILE}
             ELSE IF env.SHELL = BinZsh THEN {env.HOME \o ZshHistoryName}
             ELSE IF env.SHELL = UsrBinBash THEN {env.HOME \o BashHistoryName}
             ELSE {}

OverrideUsedForZsh ==
    /\ Recorded
    /\ env.SHELL = BinZsh /\ env.HISTFILE = TmpHist
    /\ Changed = {TmpHist}

EpochText(n) ==
    CASE n = 7 -> <<"7">>
      [] n = 1700000001 -> <<"1","7","0","0","0","0","0","0","0","1">>

\* C8: the history file gains exactly one final line and keeps what it held:
\* ": <epoch>:0;<command>" when a line it held is in the extended form, the
\* bare command when it was plain, empty or missing.
HistoryAppendFormat ==
    Recorded =>
        \A p \in Changed :
            LET old == IF p \in DOMAIN src.before THEN src.before[p] ELSE <<>> IN
            /\ old = Texts(src.hist)
            /\ Len(files[p]) = Len(old) + 1
            /\ SubSeq(files[p], 1, Len(old)) = old
            /\ files[p][Len(old) + 1] =
                 IF \E i \in 1..Len(src.hist) : src.hist[i].ext
                 THEN <<":"," ">> \o EpochText(src.now) \o <<":","0",";">> \o result.Command
                 ELSE result.Command

ExtendedEntryAfterMixedLines ==
    /\ Recorded
    /\ Len(src.hist) = 2 /\ ~src.hist[1].ext /\ src.hist[2].ext
    /\ Changed = {TmpHist}
    /\ files[TmpHist][3] = <<":"," ","7",":","0",";","l","s">>

====
